---- MODULE Spec2Model ----
(***************************************************************************)
(* The in-memory ecommerce store (internal/store) driven by its HTTP       *)
(* handlers (internal/http) and constructed by cmd/server's main.          *)
(*                                                                         *)
(* Every public store method takes s.mu on entry and releases it by defer  *)
(* on return, so each handler's call into the store is one atomic step.    *)
(*                                                                         *)
(* Spec        requests served one after the other through the handlers    *)
(* SpecStore   the store constructed and called directly, no handler       *)
(* SpecLedger  one returning customer, up to MaxLedger orders              *)
(* SpecConc    two goroutines serving requests at once: Lock, the method,  *)
(*             the deferred Unlock, then the encoding of the answer        *)
(* SpecFair    SpecConc with a fair scheduler and a fair mutex             *)
(*                                                                         *)
(* Money (float64 in the source) is modelled by whole numbers; prices are  *)
(* drawn from multiples of 10 so that the 10 percent discount is a whole   *)
(* number and gross * (Percentage / 100) is computed without rounding.     *)
(* Order IDs and the time stamps (CreatedAt, GeneratedAt, RedeemedAt) are  *)
(* not modelled.                                                           *)
(***************************************************************************)
EXTENDS Integers, Sequences, FiniteSets, TLC

\* ------------------------------------------------------------------ bounds
\* At most MaxAdds AddItem calls reach the store in one run.
MaxAdds == 3
\* The ledger holds at most MaxOrders orders.
MaxOrders == 3
\* Checkout is not called once totalItemsSold has reached MaxItemsSold.
MaxItemsSold == 3
\* The ledger of the returning customer (SpecLedger) holds at most MaxLedger orders.
MaxLedger == 6

\* ------------------------------------------------------------ input domains
UserIDs == {"user-1", "user-2"}

\* The goroutines net/http runs handlers on, one per request in flight.
Threads == {"g1", "g2"}

\* Request bodies sent to POST /api/cart/{userID}/items: ok is whether
\* json.Decode accepts the body, item what it decodes into.
ValidItems ==
    { [SKU |-> "SKU1", Name |-> "Widget", Price |-> 10, Quantity |-> 2],
      [SKU |-> "SKU1", Name |-> "Gadget", Price |-> 50, Quantity |-> 1],
      [SKU |-> "SKU2", Name |-> "Bag",    Price |-> 50, Quantity |-> 1] }

InvalidItems ==
    { [SKU |-> "",     Name |-> "Widget", Price |-> 10, Quantity |-> 1],
      [SKU |-> "SKU1", Name |-> "Widget", Price |-> 10, Quantity |-> 0],
      [SKU |-> "SKU2", Name |-> "Bag",    Price |-> 0,  Quantity |-> 1] }

AddItemBodies == [ok : {TRUE}, item : ValidItems \cup InvalidItems]
                    \cup {[ok |-> FALSE, item |-> [SKU |-> "", Name |-> "", Price |-> 0, Quantity |-> 0]]}

\* The POST /api/cart/{userID}/items requests: user-1 sends every body,
\* user-2 every body but the valid ones for SKU1.
AddItemRequests ==
    {req \in [userID : UserIDs, body : AddItemBodies] :
        (req.userID = "user-2" /\ req.body.ok /\ req.body.item \in ValidItems)
            => req.body.item.SKU # "SKU1"}

\* The strings generateDiscountCode can return (two of the 32^6 it draws from).
GeneratedCodes == {"DISC-AAAAAA", "DISC-BBBBBB"}

\* discountCode values sent to POST /api/cart/{userID}/checkout.
CodeInputs == {"", "disc-aaaaaa"} \cup GeneratedCodes

\* Values of the NTH_ORDER_DISCOUNT environment variable.
\* A string is a sequence of characters; <<>> is the unset variable.
EnvInputs == { <<>>, <<"a", "b", "c">>, <<"0">>, <<"-", "1">>, <<"1">>, <<"2">> }

\* ------------------------------------------------------------------- errors
ErrCartEmpty == "cart is empty"
ErrDiscountNotActive == "no active discount code"
ErrDiscountAlreadyUsed == "discount code already used"
ErrDiscountMismatch == "discount code mismatch"
ErrDiscountNotEligible == "not eligible to generate discount code yet"

\* -------------------------------------------------------------------- state
VARIABLES
    carts,              \* map[string]*Cart: a function on the user ids seen so far
    orders,             \* []Order
    discountHistory,    \* []DiscountCode
    activeDiscount,     \* *DiscountCode: NIL or Ref(code)
    nthOrderThreshold,
    nextEligibleOrder,
    totalItemsSold,
    grossRevenue,
    totalDiscount,
    ret,                \* what the last handler got back from the store / answered
    adds,               \* number of AddItem calls that reached the store
    mu,                 \* sync.Mutex: NIL when free, else Ref(the goroutine holding it)
    pc,                 \* where each request goroutine is
    call,               \* the request each goroutine is serving
    held,               \* what each goroutine got back from the store and is to encode
    generatedAt         \* history: the number of orders at each successful GenerateDiscount

store == <<carts, orders, discountHistory, activeDiscount, nthOrderThreshold,
           nextEligibleOrder, totalItemsSold, grossRevenue, totalDiscount>>

\* The goroutines of concurrent requests.
goroutines == <<mu, pc, call, held>>

vars == <<carts, orders, discountHistory, activeDiscount, nthOrderThreshold,
          nextEligibleOrder, totalItemsSold, grossRevenue, totalDiscount, ret, adds,
          mu, pc, call, held, generatedAt>>

\* A nil pointer, a pointer to v, and the value pointed to.
NIL == <<>>
Ref(v) == <<v>>
Deref(p) == p[1]

\* make(map[string]CartItem)
EmptyItems == [k \in {} |-> 0]

\* m[k] = v on a Go map modelled as a function
MapSet(m, k, v) == [x \in (DOMAIN m) \cup {k} |-> IF x = k THEN v ELSE m[x]]

\* The values of a Go map
MapValues(m) == {m[k] : k \in DOMAIN m}

\* What the last call was and what it returned: the operation, its arguments
\* (item is NIL or Ref(the CartItem)), the error ("" for nil), and the Cart,
\* Order or Stats returned (NIL when the operation returns none).  For
\* GenerateDiscount discountCode is the Code of the DiscountCode returned.
Response(op, userID, item, discountCode, err, cart, order, stats) ==
    [op |-> op, userID |-> userID, item |-> item, discountCode |-> discountCode,
     err |-> err, cart |-> cart, order |-> order, stats |-> stats, boot |-> NIL]

\* The record of the construction of the store: by main from the value
\* fromEnv of NTH_ORDER_DISCOUNT, or by a direct call NewMemoryStore(nthOrder).
Constructed(op, fromEnv, nthOrder) ==
    [Response(op, "", NIL, "", "", NIL, NIL, NIL)
        EXCEPT !.boot = Ref([fromEnv |-> fromEnv, nthOrder |-> nthOrder])]


\* ------------------------------------------------------- cmd/server: main
DigitValue(c) ==
    CASE c = "0" -> 0 [] c = "1" -> 1 [] c = "2" -> 2 [] c = "3" -> 3 [] c = "4" -> 4
      [] c = "5" -> 5 [] c = "6" -> 6 [] c = "7" -> 7 [] c = "8" -> 8 [] c = "9" -> 9
      [] OTHER -> -1

RECURSIVE ParseDigits(_, _)
\* The value of the digit string s after the digits read so far gave acc; -1 on a non-digit.
ParseDigits(s, acc) ==
    IF s = <<>> THEN acc
    ELSE IF DigitValue(Head(s)) < 0 THEN -1
    ELSE ParseDigits(Tail(s), 10 * acc + DigitValue(Head(s)))

\* strconv.Atoi: an optional sign, then one or more decimal digits.
Atoi(s) ==
    LET signed == s # <<>> /\ Head(s) \in {"+", "-"}
        digits == IF signed THEN Tail(s) ELSE s
        n      == ParseDigits(digits, 0)
    IN  IF digits = <<>> \/ n < 0
        THEN [err |-> TRUE, v |-> 0]
        ELSE [err |-> FALSE, v |-> IF signed /\ Head(s) = "-" THEN 0 - n ELSE n]

\* The nthOrder main passes to NewMemoryStore for a value of NTH_ORDER_DISCOUNT.
main(fromEnv) ==
    IF fromEnv # <<>> /\ ~Atoi(fromEnv).err /\ Atoi(fromEnv).v > 0
    THEN Atoi(fromEnv).v
    ELSE 3

\* ------------------------------------------------------------ NewMemoryStore
\* Faulty variant of DefaultThreshold: a non-positive nthOrder is kept.
DefaultThreshold_Keep(nthOrder) == nthOrder

DefaultThreshold(nthOrder) == IF nthOrder <= 0 THEN 5 ELSE nthOrder

NewMemoryStore(nthOrder) ==
    /\ carts = [u \in {} |-> 0]
    /\ orders = <<>>
    /\ discountHistory = <<>>
    /\ activeDiscount = NIL
    /\ nthOrderThreshold = DefaultThreshold(nthOrder)
    /\ nextEligibleOrder = DefaultThreshold(nthOrder)
    /\ totalItemsSold = 0
    /\ grossRevenue = 0
    /\ totalDiscount = 0

\* No request is in flight.
Idle ==
    /\ mu = NIL
    /\ pc = [t \in Threads |-> "idle"]
    /\ call = [t \in Threads |-> NIL]
    /\ held = [t \in Threads |-> NIL]

Init ==
    /\ \E fromEnv \in EnvInputs :
          /\ NewMemoryStore(main(fromEnv))
          /\ ret = Constructed("main", fromEnv, main(fromEnv))
    /\ adds = 0
    /\ Idle
    /\ generatedAt = <<>>

\* ------------------------------------------------------------------ helpers
\* Faulty variant of getOrCreateCart: a new cart is made whether or not the
\* user has one.
getOrCreateCart_Always(userID) == MapSet(carts, userID, [Items |-> EmptyItems])

\* The carts map after getOrCreateCart(userID); the cart returned is the
\* entry of userID in it.
getOrCreateCart(userID) ==
    IF userID \in DOMAIN carts THEN carts
    ELSE MapSet(carts, userID, [Items |-> EmptyItems])

\* ------------------------------------------------------------------ AddItem
\* Faulty variant of MergeItem: the quantity is overwritten instead of summed.
MergeItem_Overwrite(existing, item) ==
    [existing EXCEPT !.Quantity = item.Quantity,
                     !.Price = item.Price,
                     !.Name = item.Name]

\* The entry written when the sku is already in the cart.
MergeItem(existing, item) ==
    [existing EXCEPT !.Quantity = existing.Quantity + item.Quantity,
                     !.Price = item.Price,
                     !.Name = item.Name]

\* cart.Items after the if/else of AddItem.
PutItem(items, item) ==
    IF item.SKU \in DOMAIN items
    THEN MapSet(items, item.SKU, MergeItem(items[item.SKU], item))
    ELSE MapSet(items, item.SKU, item)

AddItem(userID, item) ==
    LET cs == getOrCreateCart(userID) IN
    /\ carts' = [cs EXCEPT ![userID] = [Items |-> PutItem(cs[userID].Items, item)]]
    /\ ret' = Response("AddItem", userID, Ref(item), "", "", Ref(carts'[userID]), NIL, NIL)
    /\ UNCHANGED <<orders, discountHistory, activeDiscount, nthOrderThreshold,
                   nextEligibleOrder, totalItemsSold, grossRevenue, totalDiscount>>

\* ----------------------------------------------------------------- ViewCart
ViewCart(userID) ==
    /\ carts' = getOrCreateCart(userID)
    /\ ret' = Response("ViewCart", userID, NIL, "", "", Ref(carts'[userID]), NIL, NIL)
    /\ UNCHANGED <<orders, discountHistory, activeDiscount, nthOrderThreshold,
                   nextEligibleOrder, totalItemsSold, grossRevenue, totalDiscount>>


\* ----------------------------------------------------------------- Checkout
\* The orders in which `for _, item := range cart.Items` can visit the items:
\* Go leaves the iteration order of a map unspecified.
RangeOrders(items) ==
    LET vals == MapValues(items)
        n    == Cardinality(vals)
    IN  {f \in [1..n -> vals] : \A i, j \in 1..n : i # j => f[i] # f[j]}

RECURSIVE Gross(_)
\* gross after the loop: the sum of float64(item.Quantity) * item.Price
Gross(items) ==
    IF items = <<>> THEN 0
    ELSE Head(items).Quantity * Head(items).Price + Gross(Tail(items))

RECURSIVE SumQuantity(_)
SumQuantity(items) ==
    IF items = <<>> THEN 0 ELSE Head(items).Quantity + SumQuantity(Tail(items))

\* s.totalItemsSold after the loop over the cart, which runs before the
\* discount code is looked at.
ItemsSoldAfterLoop(items) == totalItemsSold + SumQuantity(items)

\* Faulty variant of DiscountApplied: the percentage is used as a fraction.
DiscountApplied_NoDivide(gross, percentage) == gross * percentage

\* discountApplied = gross * (s.activeDiscount.Percentage / 100)
DiscountApplied(gross, percentage) == (gross * percentage) \div 100

\* Faulty variant of RedeemedCode: the code is appended before it is marked redeemed.
RedeemedCode_Unmarked(code) == code

\* *s.activeDiscount as appended to the history
RedeemedCode(code) == [code EXCEPT !.IsRedeemed = TRUE]

\* Faulty variant of AdvanceEligible: the next eligible order advances by one order.
AdvanceEligible_ByOne(next, threshold) == next + 1

\* s.nextEligibleOrder += s.nthOrderThreshold
AdvanceEligible(next, threshold) == next + threshold

\* s.totalDiscount += discountApplied
TotalDiscountAfter(discountApplied) == totalDiscount + discountApplied

\* Faulty variant of GrossRevenueAfter: the revenue after discount is accumulated.
GrossRevenueAfter_Net(gross, discountApplied) == grossRevenue + gross - discountApplied

\* s.grossRevenue += gross
GrossRevenueAfter(gross, discountApplied) == grossRevenue + gross

\* TotalAmount: gross - discountApplied
TotalAmount(gross, discountApplied) == gross - discountApplied

\* Faulty variant of ResetCart: the cart is left as it was.
ResetCart_Skip(cs, userID) == cs

\* cart.Items = make(map[string]CartItem)
ResetCart(cs, userID) == [cs EXCEPT ![userID] = [Items |-> EmptyItems]]

NewOrder(userID, items, gross, discountApplied, codeUsed) ==
    [UserID |-> userID,
     Items |-> items,
     TotalAmount |-> TotalAmount(gross, discountApplied),
     DiscountCode |-> codeUsed,
     DiscountValue |-> discountApplied]

\* An error return after the loop over the cart has run.
CheckoutFail(userID, discountCode, cs, items, err) ==
    /\ carts' = cs
    /\ totalItemsSold' = ItemsSoldAfterLoop(items)
    /\ ret' = Response("Checkout", userID, NIL, discountCode, err, NIL, NIL, NIL)
    /\ UNCHANGED <<orders, discountHistory, activeDiscount, nthOrderThreshold,
                   nextEligibleOrder, grossRevenue, totalDiscount>>

\* Faulty variant of Recorded: the new order is put in front of the others.
Recorded_InFront(os, order) == <<order>> \o os

\* s.orders = append(s.orders, order)
Recorded(os, order) == Append(os, order)

\* The order is built, appended and returned; the cart is reset.
CheckoutRecord(userID, discountCode, cs, items, discountApplied, codeUsed) ==
    LET order == NewOrder(userID, items, Gross(items), discountApplied, codeUsed) IN
    /\ orders' = Recorded(orders, order)
    /\ grossRevenue' = GrossRevenueAfter(Gross(items), discountApplied)
    /\ totalItemsSold' = ItemsSoldAfterLoop(items)
    /\ carts' = ResetCart(cs, userID)
    /\ ret' = Response("Checkout", userID, NIL, discountCode, "", NIL, Ref(order), NIL)

\* Faulty variant of CartIsEmpty: the empty cart is not checked for.
CartIsEmpty_Never(cart) == FALSE

\* len(cart.Items) == 0
CartIsEmpty(cart) == Cardinality(DOMAIN cart.Items) = 0

\* Faulty variant of CodeMatches: the supplied string is not compared.
CodeMatches_Any(code, discountCode) == TRUE

\* !(s.activeDiscount.Code != discountCode): Go compares strings byte by byte
CodeMatches(code, discountCode) == code = discountCode

\* Faulty variant of ClearedSlot: the redeemed code stays in the active slot.
ClearedSlot_Kept(active) == Ref(RedeemedCode(active))

\* s.activeDiscount = nil
ClearedSlot(active) == NIL

Checkout(userID, discountCode) ==
    LET cs   == getOrCreateCart(userID)
        cart == cs[userID]
    IN
    \/ /\ CartIsEmpty(cart)
       /\ carts' = cs
       /\ ret' = Response("Checkout", userID, NIL, discountCode, ErrCartEmpty, NIL, NIL, NIL)
       /\ UNCHANGED <<orders, discountHistory, activeDiscount, nthOrderThreshold,
                      nextEligibleOrder, totalItemsSold, grossRevenue, totalDiscount>>
    \/ /\ ~CartIsEmpty(cart)
       /\ \E items \in RangeOrders(cart.Items) :
            \/ /\ discountCode = ""
               /\ CheckoutRecord(userID, discountCode, cs, items, 0, "")
               /\ UNCHANGED <<discountHistory, activeDiscount, nthOrderThreshold,
                              nextEligibleOrder, totalDiscount>>
            \/ /\ discountCode # ""
               /\ activeDiscount = NIL
               /\ CheckoutFail(userID, discountCode, cs, items, ErrDiscountNotActive)
            \/ /\ discountCode # ""
               /\ activeDiscount # NIL
               /\ Deref(activeDiscount).IsRedeemed
               /\ CheckoutFail(userID, discountCode, cs, items, ErrDiscountAlreadyUsed)
            \/ /\ discountCode # ""
               /\ activeDiscount # NIL
               /\ ~Deref(activeDiscount).IsRedeemed
               /\ ~CodeMatches(Deref(activeDiscount).Code, discountCode)
               /\ CheckoutFail(userID, discountCode, cs, items, ErrDiscountMismatch)
            \/ /\ discountCode # ""
               /\ activeDiscount # NIL
               /\ ~Deref(activeDiscount).IsRedeemed
               /\ CodeMatches(Deref(activeDiscount).Code, discountCode)
               /\ LET active == Deref(activeDiscount)
                      discountApplied == DiscountApplied(Gross(items), active.Percentage)
                  IN  /\ discountHistory' = Append(discountHistory, RedeemedCode(active))
                      /\ activeDiscount' = ClearedSlot(active)
                      /\ nextEligibleOrder' = AdvanceEligible(nextEligibleOrder, nthOrderThreshold)
                      /\ totalDiscount' = TotalDiscountAfter(discountApplied)
                      /\ CheckoutRecord(userID, discountCode, cs, items,
                                        discountApplied, active.Code)
                      /\ UNCHANGED nthOrderThreshold

\* --------------------------------------------------------- GenerateDiscount
\* Faulty variant of Eligible: eligible one order early.
Eligible_OneEarly(totalOrders, next) == totalOrders + 1 >= next

\* eligible := totalOrders >= s.nextEligibleOrder
Eligible(totalOrders, next) == totalOrders >= next

\* Faulty variant of NotEligible: an active code does not block generation.
NotEligible_IgnoreActive(totalOrders, next, active) == ~Eligible(totalOrders, next)

\* The condition of the NotEligible return.
NotEligible(totalOrders, next, active) ==
    ~Eligible(totalOrders, next) \/ (active # NIL /\ ~Deref(active).IsRedeemed)

\* Faulty variant of NewDiscountCode: the code carries the threshold after
\* the one it was issued at.
NewDiscountCode_NextThreshold(code, next) ==
    [Code |-> code, Percentage |-> 10, IsRedeemed |-> FALSE,
     EligibleOrderNum |-> next + nthOrderThreshold]

NewDiscountCode(code, next) ==
    [Code |-> code, Percentage |-> 10, IsRedeemed |-> FALSE, EligibleOrderNum |-> next]

GenerateDiscount ==
    \/ /\ NotEligible(Len(orders), nextEligibleOrder, activeDiscount)
       /\ ret' = Response("GenerateDiscount", "", NIL, "", ErrDiscountNotEligible, NIL, NIL, NIL)
       /\ UNCHANGED store
    \/ /\ ~NotEligible(Len(orders), nextEligibleOrder, activeDiscount)
       \* generateDiscountCode draws six random letters and checks nothing
       /\ \E code \in GeneratedCodes :
            /\ activeDiscount' = Ref(NewDiscountCode(code, nextEligibleOrder))
            /\ ret' = Response("GenerateDiscount", "", NIL, code, "", NIL, NIL, NIL)
       /\ UNCHANGED <<carts, orders, discountHistory, nthOrderThreshold,
                      nextEligibleOrder, totalItemsSold, grossRevenue, totalDiscount>>

\* -------------------------------------------------------------------- Stats
\* Faulty variant of StatsValue: the active code is not appended to the codes.
StatsValue_HistoryOnly ==
    [TotalOrders |-> Len(orders),
     TotalItemsSold |-> totalItemsSold,
     GrossRevenue |-> grossRevenue,
     TotalDiscountGiven |-> totalDiscount,
     DiscountCodes |-> discountHistory,
     ActiveDiscount |-> activeDiscount]

StatsValue ==
    [TotalOrders |-> Len(orders),
     TotalItemsSold |-> totalItemsSold,
     GrossRevenue |-> grossRevenue,
     TotalDiscountGiven |-> totalDiscount,
     DiscountCodes |-> IF activeDiscount # NIL
                       THEN Append(discountHistory, Deref(activeDiscount))
                       ELSE discountHistory,
     ActiveDiscount |-> activeDiscount]

Stats ==
    /\ ret' = Response("Stats", "", NIL, "", "", NIL, NIL, Ref(StatsValue))
    /\ UNCHANGED store

\* ----------------------------------------------------------- HTTP handlers
handleAddItem(userID, body) ==
    \/ /\ ~body.ok
       /\ ret' = Response("handleAddItem", "", NIL, "", "invalid payload", NIL, NIL, NIL)
       /\ UNCHANGED <<store, adds, goroutines, generatedAt>>
    \/ /\ body.ok
       /\ body.item.SKU = "" \/ body.item.Quantity <= 0 \/ body.item.Price <= 0
       /\ ret' = Response("handleAddItem", "", NIL, "",
                          "sku, price and quantity are required", NIL, NIL, NIL)
       /\ UNCHANGED <<store, adds, goroutines, generatedAt>>
    \/ /\ body.ok
       /\ ~(body.item.SKU = "" \/ body.item.Quantity <= 0 \/ body.item.Price <= 0)
       /\ adds < MaxAdds
       /\ adds' = adds + 1
       /\ AddItem(userID, body.item)
       /\ UNCHANGED <<goroutines, generatedAt>>

handleViewCart(userID) ==
    /\ ViewCart(userID)
    /\ UNCHANGED <<adds, goroutines, generatedAt>>

handleCheckout(userID, discountCode) ==
    /\ Len(orders) < MaxOrders
    /\ totalItemsSold < MaxItemsSold
    /\ Checkout(userID, discountCode)
    /\ UNCHANGED <<adds, goroutines, generatedAt>>

handleGenerateDiscount ==
    /\ GenerateDiscount
    /\ UNCHANGED <<adds, goroutines, generatedAt>>

handleStats ==
    /\ Stats
    /\ UNCHANGED <<adds, goroutines, generatedAt>>

Next ==
    \/ \E req \in AddItemRequests : handleAddItem(req.userID, req.body)
    \/ \E userID \in UserIDs : handleViewCart(userID)
    \/ \E userID \in UserIDs, discountCode \in CodeInputs : handleCheckout(userID, discountCode)
    \/ handleGenerateDiscount
    \/ handleStats

Spec == Init /\ [][Next]_vars

\* ------------------------------------------ the store called as a package
\* internal/store is a package of its own: store_test.go constructs the store
\* with NewMemoryStore(n) and calls its methods with no handler in between,
\* so nothing has validated the arguments.

\* Arguments of a direct NewMemoryStore call.
CtorInputs == {-1, 0, 1, 3, 5}

\* Items handed to AddItem by a caller that does not validate.
DirectItems ==
    InvalidItems \cup {[SKU |-> "SKU2", Name |-> "Bag", Price |-> 50, Quantity |-> 1]}

\* The store after main has constructed it, or after NewMemoryStore(nthOrder).
InitStore ==
    \/ Init
    \/ /\ \E nthOrder \in CtorInputs :
            /\ NewMemoryStore(nthOrder)
            /\ ret = Constructed("NewMemoryStore", NIL, nthOrder)
       /\ adds = 0
       /\ Idle
       /\ generatedAt = <<>>

callAddItem(userID, item) ==
    /\ adds < MaxAdds
    /\ adds' = adds + 1
    /\ AddItem(userID, item)
    /\ UNCHANGED <<goroutines, generatedAt>>

callViewCart(userID) ==
    /\ ViewCart(userID)
    /\ UNCHANGED <<adds, goroutines, generatedAt>>

callCheckout(userID, discountCode) ==
    /\ Len(orders) < MaxOrders
    /\ totalItemsSold < MaxItemsSold
    /\ Checkout(userID, discountCode)
    /\ UNCHANGED <<adds, goroutines, generatedAt>>

callGenerateDiscount ==
    /\ GenerateDiscount
    /\ UNCHANGED <<adds, goroutines, generatedAt>>

callStats ==
    /\ Stats
    /\ UNCHANGED <<adds, goroutines, generatedAt>>

\* The one user the direct caller acts for.
DirectUsers == {"user-1"}

NextStore ==
    \/ \E userID \in DirectUsers, item \in DirectItems : callAddItem(userID, item)
    \/ \E userID \in DirectUsers : callViewCart(userID)
    \/ \E userID \in DirectUsers, discountCode \in {"", "DISC-AAAAAA"} :
          callCheckout(userID, discountCode)
    \/ callGenerateDiscount
    \/ callStats

SpecStore == InitStore /\ [][NextStore]_vars

\* ------------------------------------------------ one customer, many orders
\* One customer who puts one item in the cart, checks out, and does so again,
\* with no code or with the code that is active, while the admin asks for
\* codes: the ledger grows to MaxLedger orders, past the second multiple of
\* every threshold main can set.
LedgerItem == [SKU |-> "SKU2", Name |-> "Bag", Price |-> 50, Quantity |-> 1]

\* The discountCode values the customer sends: none, or the active code.
LedgerCodes ==
    {""} \cup (IF activeDiscount = NIL THEN {} ELSE {Deref(activeDiscount).Code})

ledgerAddItem ==
    /\ Len(orders) < MaxLedger
    /\ "user-1" \in DOMAIN carts => carts["user-1"].Items = EmptyItems
    /\ AddItem("user-1", LedgerItem)
    /\ UNCHANGED <<adds, goroutines, generatedAt>>

ledgerCheckout(discountCode) ==
    /\ discountCode \in LedgerCodes
    /\ Len(orders) < MaxLedger
    /\ Checkout("user-1", discountCode)
    /\ UNCHANGED <<adds, goroutines, generatedAt>>

\* generatedAt records len(s.orders) at each call that returned a code.
ledgerGenerateDiscount ==
    /\ GenerateDiscount
    /\ generatedAt' = IF ret'.err = "" THEN Append(generatedAt, Len(orders))
                                       ELSE generatedAt
    /\ UNCHANGED <<adds, goroutines>>

NextLedger ==
    \/ ledgerAddItem
    \/ \E discountCode \in CodeInputs : ledgerCheckout(discountCode)
    \/ ledgerGenerateDiscount

SpecLedger == Init /\ [][NextLedger]_vars

\* ------------------------------------------------------ concurrent requests
\* net/http serves every request on a goroutine of its own.  A handler calls
\* one store method, which takes s.mu on entry (s.mu.Lock()), runs its body
\* and releases s.mu by defer on return; the handler then encodes what it got
\* back with writeJSON, the lock no longer held.

\* The store calls of the handlers of the concurrent requests.
ConcCalls ==
    {[op |-> "AddItem", userID |-> u, item |-> Ref(LedgerItem), discountCode |-> ""] :
        u \in UserIDs}
    \cup {[op |-> "ViewCart", userID |-> "user-1", item |-> NIL, discountCode |-> ""]}
    \cup {[op |-> "Checkout", userID |-> u, item |-> NIL, discountCode |-> "DISC-AAAAAA"] :
            u \in UserIDs}
    \cup {[op |-> "Checkout", userID |-> "user-1", item |-> NIL, discountCode |-> ""]}
    \cup {[op |-> "GenerateDiscount", userID |-> "", item |-> NIL, discountCode |-> ""],
          [op |-> "Stats", userID |-> "", item |-> NIL, discountCode |-> ""]}

\* The calls of the request that arrives while another is being served.
OverlappingCalls ==
    {c \in ConcCalls :
        \/ c.op = "AddItem" /\ c.userID = "user-1"
        \/ c.op = "Checkout" /\ c.userID = "user-2"}

\* The number of goroutines that are serving a call of op and have not yet
\* run its body.
InFlight(op) ==
    Cardinality({t \in Threads :
        pc[t] \in {"lock", "locked"} /\ Deref(call[t]).op = op})

\* The number of times Checkout has given userID a new Items map
\* (cart.Items = make(map[string]CartItem)): once per order of the user.
CartEpoch(os, userID) ==
    Cardinality({i \in 1..Len(os) : os[i].UserID = userID})

\* What a returned Cart, a copy of the struct, shares with the store: the
\* Items map of userID that was current at the return.
ItemsRef(userID) == Ref([userID |-> userID, epoch |-> CartEpoch(orders', userID)])

\* What the ActiveDiscount pointer of a returned Stats points to: the
\* DiscountCode generated as the k-th.
CodeRef == IF activeDiscount' = NIL THEN NIL ELSE Ref(Len(discountHistory') + 1)

\* Faulty variant of CanLock: Lock does not wait.
CanLock_Always(holder) == TRUE

\* s.mu.Lock() returns when no goroutine holds the mutex.
CanLock(holder) == holder = NIL

\* Faulty variant of Unlocked: the mutex is released on the success path only.
Unlocked_NotOnError(holder, err) == IF err = "" THEN NIL ELSE holder

\* defer s.mu.Unlock() runs on every return, whatever it returns.
Unlocked(holder, err) == NIL

\* A request arrives and its handler starts on an idle goroutine; g2 takes
\* the requests that arrive while g1 is busy.
serve(t, c) ==
    /\ pc[t] = "idle"
    /\ t = "g2" => (pc["g1"] # "idle" /\ c \in OverlappingCalls)
    /\ c.op = "AddItem" => adds + InFlight("AddItem") < MaxAdds
    /\ c.op = "Checkout" =>
          /\ Len(orders) + InFlight("Checkout") < MaxOrders
          /\ totalItemsSold + InFlight("Checkout") < MaxItemsSold
    /\ pc' = [pc EXCEPT ![t] = "lock"]
    /\ call' = [call EXCEPT ![t] = Ref(c)]
    /\ UNCHANGED <<store, ret, adds, mu, held, generatedAt>>

\* s.mu.Lock()
Lock(t) ==
    /\ pc[t] = "lock"
    /\ CanLock(mu)
    /\ mu' = Ref(t)
    /\ pc' = [pc EXCEPT ![t] = "locked"]
    /\ UNCHANGED <<store, ret, adds, call, held, generatedAt>>

\* The return of the store method to the handler on goroutine t: the deferred
\* Unlock runs, and the handler holds the returned value, with what that
\* value shares with the store.  waiting are the goroutines that were
\* blocked in s.mu.Lock() during the call and whose own call has not run
\* since; waitedFor are the goroutines during whose call t was blocked and
\* that have not answered yet.
Return(t) ==
    /\ mu' = Unlocked(mu, ret'.err)
    /\ held' = [o \in Threads |->
                  IF o = t
                  THEN Ref([ret    |-> ret',
                            items  |-> IF ret'.cart = NIL THEN NIL
                                       ELSE ItemsRef(ret'.userID),
                            active |-> IF ret'.stats = NIL THEN NIL ELSE CodeRef,
                            waiting |-> {w \in Threads : pc[w] = "lock"},
                            waitedFor |-> {w \in Threads :
                                held[w] # NIL /\ t \in Deref(held[w]).waiting}])
                  ELSE IF held[o] = NIL THEN NIL
                  ELSE Ref([Deref(held[o]) EXCEPT !.waiting = @ \ {t}])]
    /\ pc' = [pc EXCEPT ![t] = "encode"]
    /\ UNCHANGED <<call, generatedAt>>

lockedAddItem(t) ==
    /\ pc[t] = "locked"
    /\ Deref(call[t]).op = "AddItem"
    /\ AddItem(Deref(call[t]).userID, Deref(Deref(call[t]).item))
    /\ adds' = adds + 1
    /\ Return(t)

lockedViewCart(t) ==
    /\ pc[t] = "locked"
    /\ Deref(call[t]).op = "ViewCart"
    /\ ViewCart(Deref(call[t]).userID)
    /\ UNCHANGED adds
    /\ Return(t)

lockedCheckout(t) ==
    /\ pc[t] = "locked"
    /\ Deref(call[t]).op = "Checkout"
    /\ Checkout(Deref(call[t]).userID, Deref(call[t]).discountCode)
    /\ UNCHANGED adds
    /\ Return(t)

lockedGenerateDiscount(t) ==
    /\ pc[t] = "locked"
    /\ Deref(call[t]).op = "GenerateDiscount"
    /\ GenerateDiscount
    /\ UNCHANGED adds
    /\ Return(t)

lockedStats(t) ==
    /\ pc[t] = "locked"
    /\ Deref(call[t]).op = "Stats"
    /\ Stats
    /\ UNCHANGED adds
    /\ Return(t)

\* writeJSON / writeError: the handler encodes what it holds and is done.
writeJSON(t) ==
    /\ pc[t] = "encode"
    /\ pc' = [pc EXCEPT ![t] = "idle"]
    /\ call' = [call EXCEPT ![t] = NIL]
    /\ held' = [held EXCEPT ![t] = NIL]
    /\ UNCHANGED <<store, ret, adds, mu, generatedAt>>

\* The goroutine t is between the return of AddItem or ViewCart and the end
\* of writeJSON, whose encoder iterates over the Items map of the Cart it
\* holds, while another goroutine is inside AddItem for the same user, which
\* assigns into that map (cart.Items[item.SKU] = ...): a read and a write of
\* one Go map with nothing ordering them.
Racing(t) ==
    /\ pc[t] = "encode"
    /\ Deref(held[t]).items # NIL
    /\ LET ref == Deref(Deref(held[t]).items)
       IN  /\ CartEpoch(orders, ref.userID) = ref.epoch
           /\ \E o \in Threads \ {t} :
                 /\ pc[o] = "locked"
                 /\ Deref(call[o]).op = "AddItem"
                 /\ Deref(call[o]).userID = ref.userID

\* One outcome of the race: the runtime finds the map being written while it
\* is iterated, throws "fatal error: concurrent map iteration and map write"
\* and the process exits, every goroutine with it.  The other outcomes, the
\* encoder seeing the map as before or as after the write, are the two
\* orders of writeJSON(t) and lockedAddItem(o).
fatal(t) ==
    /\ Racing(t)
    /\ mu' = NIL
    /\ pc' = [o \in Threads |-> "exit"]
    /\ call' = [o \in Threads |-> NIL]
    /\ held' = [o \in Threads |-> NIL]
    /\ UNCHANGED <<store, ret, adds, generatedAt>>

NextConc ==
    \/ \E t \in Threads, c \in ConcCalls : serve(t, c)
    \/ \E t \in Threads : Lock(t)
    \/ \E t \in Threads : lockedAddItem(t)
    \/ \E t \in Threads : lockedViewCart(t)
    \/ \E t \in Threads : lockedCheckout(t)
    \/ \E t \in Threads : lockedGenerateDiscount(t)
    \/ \E t \in Threads : lockedStats(t)
    \/ \E t \in Threads : writeJSON(t)
    \/ \E t \in Threads : fatal(t)

SpecConc == Init /\ [][NextConc]_vars

\* ------------------------------------------- what a returned value refers to
\* The Items map a returned Cart refers to, as it is now.  While the user has
\* not checked out since, it is the map of the user's cart in the store;
\* after that checkout the store has a new map and the old one keeps the
\* items the checkout found in it, those of the order.
ItemsNow(ref) ==
    IF CartEpoch(orders, ref.userID) = ref.epoch
    THEN carts[ref.userID].Items
    ELSE LET mine == SelectSeq(orders, LAMBDA o : o.UserID = ref.userID)
             its  == mine[ref.epoch + 1].Items
         IN  [k \in {its[i].SKU : i \in 1..Len(its)} |->
                CHOOSE it \in {its[i] : i \in 1..Len(its)} : it.SKU = k]

\* The DiscountCode an ActiveDiscount pointer refers to, as it is now:
\* Checkout sets IsRedeemed through the pointer before it copies the code to
\* the history, so the k-th code is the k-th of the history once redeemed.
CodeNow(k) ==
    IF k <= Len(discountHistory) THEN discountHistory[k] ELSE Deref(activeDiscount)

\* ----------------------------------------------------------- fair scheduling
\* The body of the store method the goroutine t is in.
method(t) ==
    \/ lockedAddItem(t)
    \/ lockedViewCart(t)
    \/ lockedCheckout(t)
    \/ lockedGenerateDiscount(t)
    \/ lockedStats(t)

\* The Go scheduler runs every runnable goroutine (weak fairness of method
\* and writeJSON), and sync.Mutex hands the mutex to a goroutine that has
\* waited for over a millisecond (starvation mode), so that a goroutine
\* blocked in Lock gets the mutex if it is free again and again (strong
\* fairness of Lock).  No request has to arrive, and the race need not end
\* in the fatal error.
Fairness ==
    \A t \in Threads :
        /\ SF_vars(Lock(t))
        /\ WF_vars(method(t))
        /\ WF_vars(writeJSON(t))

SpecFair == Init /\ [][NextConc]_vars /\ Fairness

\* =================================================================== claims
\* Helpers of the properties below.
CheckoutFailedOnCode(r) ==
    /\ r.op = "Checkout"
    /\ r.err \in {ErrDiscountNotActive, ErrDiscountAlreadyUsed, ErrDiscountMismatch}

CheckoutSucceeded(r) == r.op = "Checkout" /\ r.err = ""

RECURSIVE LedgerItems(_)
\* The sum of the quantities of all items of all orders of a ledger.
LedgerItems(os) ==
    IF os = <<>> THEN 0 ELSE SumQuantity(Head(os).Items) + LedgerItems(Tail(os))

RECURSIVE LedgerGross(_)
\* The sum of TotalAmount + DiscountValue over a ledger.
LedgerGross(os) ==
    IF os = <<>> THEN 0
    ELSE Head(os).TotalAmount + Head(os).DiscountValue + LedgerGross(Tail(os))

RECURSIVE LedgerDiscount(_)
\* The sum of DiscountValue over a ledger.
LedgerDiscount(os) ==
    IF os = <<>> THEN 0 ELSE Head(os).DiscountValue + LedgerDiscount(Tail(os))

\* C1: a Checkout that returns NotActive, AlreadyUsed or Mismatch leaves the
\* whole store state (orders, the three counters, the active code, the
\* history, nextEligibleOrder and every cart) as it was before the call.
C1_CheckoutAtomicOnFailure ==
    [][CheckoutFailedOnCode(ret') => UNCHANGED store]_vars

\* C2: in every reachable state the totalItemsSold that Stats reports equals
\* the sum of the quantities of all items of all orders in the ledger.
C2_ItemsSoldMatchesLedger ==
    StatsValue.TotalItemsSold = LedgerItems(orders)

\* C3: grossRevenue is the sum over the ledger of TotalAmount + DiscountValue,
\* totalDiscount is the sum over the ledger of DiscountValue, and neither
\* counter ever decreases.
C3_CountersMatchLedger ==
    /\ grossRevenue = LedgerGross(orders)
    /\ totalDiscount = LedgerDiscount(orders)

C3_RevenueAndDiscountFromLedger ==
    [][ /\ C3_CountersMatchLedger
        /\ C3_CountersMatchLedger'
        /\ grossRevenue' >= grossRevenue
        /\ totalDiscount' >= totalDiscount ]_vars

\* C3 witness: a discounted order is in the ledger and both counters are positive.
C3_Witness ==
    /\ \E i \in 1..Len(orders) : orders[i].DiscountValue > 0
    /\ Len(orders) >= 2
    /\ totalDiscount > 0
    /\ grossRevenue > totalDiscount


\* "There is an active unredeemed code."
ActiveUnredeemed == activeDiscount # NIL /\ ~Deref(activeDiscount).IsRedeemed

\* C4: GenerateDiscount succeeds exactly when the number of recorded orders
\* is at least nextEligibleOrder and there is no active unredeemed code;
\* otherwise it returns NotEligible and changes no store state.  So the first
\* generation succeeds once N orders are recorded, and while a code is active
\* every further generation fails, however many orders are recorded.
C4_GenerateIffEligible ==
    [][ret'.op = "GenerateDiscount" =>
          /\ ret'.err \in {"", ErrDiscountNotEligible}
          /\ (ret'.err = "") <=> (Len(orders) >= nextEligibleOrder /\ ~ActiveUnredeemed)
          /\ ret'.err = ErrDiscountNotEligible => UNCHANGED store
          /\ ret'.err = "" => ActiveUnredeemed'
          /\ (discountHistory = <<>> /\ activeDiscount = NIL) =>
                ((ret'.err = "") <=> Len(orders) >= nthOrderThreshold)
          /\ activeDiscount # NIL => ret'.err = ErrDiscountNotEligible ]_vars

\* C4 witness: with a code active and more orders recorded than the count
\* that made it eligible, GenerateDiscount has just returned NotEligible.
C4_Witness ==
    /\ ret.op = "GenerateDiscount"
    /\ ret.err = ErrDiscountNotEligible
    /\ activeDiscount # NIL
    /\ Len(orders) > nextEligibleOrder

\* C5: there is at most one active code, the active code is not redeemed,
\* every code of the history is redeemed, a code once appended to the history
\* is never changed or removed, and Checkout never returns AlreadyUsed.
C5_DiscountSlots ==
    /\ Len(activeDiscount) <= 1
    /\ activeDiscount # NIL => ~Deref(activeDiscount).IsRedeemed
    /\ \A i \in 1..Len(discountHistory) : discountHistory[i].IsRedeemed

C5_SingleActiveImmutableHistory ==
    [][ /\ C5_DiscountSlots
        /\ C5_DiscountSlots'
        /\ Len(discountHistory') >= Len(discountHistory)
        /\ SubSeq(discountHistory', 1, Len(discountHistory)) = discountHistory
        /\ ret'.err # ErrDiscountAlreadyUsed ]_vars

\* C5 witness: one code is in the history and another one is active.
C5_Witness ==
    /\ Len(discountHistory) >= 1
    /\ activeDiscount # NIL
    /\ ret.op = "GenerateDiscount"
    /\ ret.err = ""

\* C6: once a Checkout has succeeded with a code string, no later Checkout
\* that supplies the same string succeeds.
C6_NoSecondRedemption ==
    [][(/\ ret'.op = "Checkout"
        /\ \E i \in 1..Len(orders) : orders[i].DiscountCode = ret'.discountCode
        /\ ret'.discountCode # "")
          => ret'.err \in {ErrDiscountMismatch, ErrDiscountNotActive, ErrCartEmpty}]_vars

\* C7: nextEligibleOrder starts at the threshold N, never decreases, and
\* changes only in a Checkout that redeems the active code, where it grows by
\* exactly N; every other call leaves it unchanged.
C7_Redeems(r) == CheckoutSucceeded(r) /\ r.discountCode # ""

C7_NextEligibleOrder ==
    /\ nextEligibleOrder = nthOrderThreshold
    /\ [][ /\ nextEligibleOrder' >= nextEligibleOrder
           /\ nthOrderThreshold' = nthOrderThreshold
           /\ C7_Redeems(ret') => nextEligibleOrder' = nextEligibleOrder + nthOrderThreshold
           /\ ~C7_Redeems(ret') => nextEligibleOrder' = nextEligibleOrder ]_vars

\* C7 witness: with threshold 2 a code has just been redeemed and
\* nextEligibleOrder is 4.
C7_Witness ==
    /\ C7_Redeems(ret)
    /\ nthOrderThreshold = 2
    /\ nextEligibleOrder = 4


\* The set of the elements of a sequence.
SeqElems(q) == {q[i] : i \in 1..Len(q)}

RECURSIVE CartGross(_, _)
\* The sum of quantity x unit price over the skus ks of an item map.
CartGross(items, ks) ==
    IF ks = {} THEN 0
    ELSE LET k == CHOOSE x \in ks : TRUE
         IN  items[k].Quantity * items[k].Price + CartGross(items, ks \ {k})

\* C8: a Checkout that returns an order for user U leaves U's cart entry in
\* place with zero items (a ViewCart(U) that follows returns zero items), and
\* the order's items are exactly the items that were in U's cart before the
\* call, each once, in any order.
C8_ViewCartAfterCheckout ==
    (CheckoutSucceeded(ret) /\ ret'.op = "ViewCart" /\ ret'.userID = ret.userID)
        => (DOMAIN Deref(ret'.cart).Items = {} /\ carts' = carts)

C8_CheckoutEmptiesCartIntoOrder ==
    [][/\ C8_ViewCartAfterCheckout
       /\ CheckoutSucceeded(ret') =>
          LET u     == ret'.userID
              order == Deref(ret'.order)
          IN  /\ u \in DOMAIN carts
              /\ u \in DOMAIN carts'
              /\ DOMAIN carts'[u].Items = {}
              /\ order.UserID = u
              /\ SeqElems(order.Items) = MapValues(carts[u].Items)
              /\ Len(order.Items) = Cardinality(DOMAIN carts[u].Items)
              /\ Len(order.Items) > 0
              /\ orders' = Append(orders, order)
              /\ \A v \in DOMAIN carts' \ {u} : v \in DOMAIN carts /\ carts'[v] = carts[v] ]_vars

\* C8 witness: an order with two items has just been returned and the
\* user's cart is empty.
C8_Witness ==
    /\ CheckoutSucceeded(ret)
    /\ Len(Deref(ret.order).Items) = 2
    /\ DOMAIN carts[ret.userID].Items = {}

\* C9: for a successful Checkout with gross = the sum of quantity x price
\* over the cart: without a code DiscountValue = 0, DiscountCode is empty and
\* TotalAmount = gross; with the active code redeemed DiscountValue is 10
\* percent of gross, DiscountCode is that code, TotalAmount = gross -
\* DiscountValue and totalDiscount grows by DiscountValue (a cart of 50 gives
\* a total of 45 and a discount of 5).
C9_OrderAmounts ==
    [][CheckoutSucceeded(ret') =>
          LET items == carts[ret'.userID].Items
              gross == CartGross(items, DOMAIN items)
              order == Deref(ret'.order)
          IN  /\ gross > 0
              /\ ret'.discountCode = "" =>
                    /\ order.DiscountValue = 0
                    /\ order.DiscountCode = ""
                    /\ order.TotalAmount = gross
                    /\ totalDiscount' = totalDiscount
              /\ ret'.discountCode # "" =>
                    /\ activeDiscount # NIL
                    /\ order.DiscountCode = Deref(activeDiscount).Code
                    /\ order.DiscountCode = ret'.discountCode
                    /\ order.DiscountValue * 100 = gross * 10
                    /\ order.TotalAmount = gross - order.DiscountValue
                    /\ totalDiscount' = totalDiscount + order.DiscountValue
                    /\ gross = 50 => (order.TotalAmount = 45 /\ order.DiscountValue = 5) ]_vars

\* C9 witness: a cart of 50 has just been checked out with the active code:
\* total 45, discount 5, and Stats would report a total discount of 5.
C9_Witness ==
    /\ CheckoutSucceeded(ret)
    /\ ret.discountCode # ""
    /\ Deref(ret.order).TotalAmount = 45
    /\ Deref(ret.order).DiscountValue = 5
    /\ StatsValue.TotalDiscountGiven = 5

\* C10: AddItem(U, item) sets the cart's entry for item.SKU to the supplied
\* name and price with the quantity of the entry before the call (0 when the
\* sku was not in the cart) plus the supplied quantity, and leaves the entries
\* of the other skus as they were.  By induction over the calls between two
\* checkouts of U the quantity is the sum of the supplied quantities and name
\* and price are those of the last call.
C10_AddItemMerges ==
    [][ret'.op = "AddItem" =>
          LET u    == ret'.userID
              item == Deref(ret'.item)
              old  == IF u \in DOMAIN carts THEN carts[u].Items ELSE EmptyItems
              new  == carts'[u].Items
              had  == IF item.SKU \in DOMAIN old THEN old[item.SKU].Quantity ELSE 0
          IN  /\ DOMAIN new = DOMAIN old \cup {item.SKU}
              /\ new[item.SKU].SKU = item.SKU
              /\ new[item.SKU].Quantity = had + item.Quantity
              /\ new[item.SKU].Name = item.Name
              /\ new[item.SKU].Price = item.Price
              /\ \A k \in DOMAIN old \ {item.SKU} : new[k] = old[k] ]_vars

\* C10 witness: SKU1 was added as Widget (2 at 10) and then as Gadget (1 at
\* 50): the entry has the last call's name and price and the quantity 3.
C10_Witness ==
    /\ ret.op = "AddItem"
    /\ Deref(ret.item) = [SKU |-> "SKU1", Name |-> "Gadget", Price |-> 50, Quantity |-> 1]
    /\ carts[ret.userID].Items["SKU1"] =
          [SKU |-> "SKU1", Name |-> "Gadget", Price |-> 50, Quantity |-> 3]

\* ------------------------------------------------------------------- C11
\* The item a cart or an order may hold: a sku, a positive quantity and a
\* positive price.
WellFormedItem(item) == item.SKU # "" /\ item.Quantity > 0 /\ item.Price > 0

\* C11: a direct AddItem with an empty sku, a non-positive quantity or a
\* non-positive price returns an error and leaves the carts as they were, and
\* so every item of every cart and of every order is well formed, whether or
\* not a handler has validated it.
C11_AddItemRejectsInvalidItem ==
    [][/\ (ret'.op = "AddItem" /\ ~WellFormedItem(Deref(ret'.item)))
            => (ret'.err # "" /\ carts' = carts)
       /\ \A u \in DOMAIN carts' : \A k \in DOMAIN carts'[u].Items :
            WellFormedItem(carts'[u].Items[k])
       /\ \A i \in 1..Len(orders') : \A j \in 1..Len(orders'[i].Items) :
            WellFormedItem(orders'[i].Items[j]) ]_vars

\* ------------------------------------------------------------------- C13
\* C13: Checkout for a user with no items in the cart, or with no cart at
\* all, returns ErrCartEmpty whatever the discount code string is, and leaves
\* the orders, the three counters, the active code, the discount history and
\* nextEligibleOrder as they were.
C13_EmptyCartCheckout ==
    [][(/\ ret'.op = "Checkout"
        /\ \/ ret'.userID \notin DOMAIN carts
           \/ DOMAIN carts[ret'.userID].Items = {})
         => /\ ret'.err = ErrCartEmpty
            /\ ret'.order = NIL
            /\ UNCHANGED <<orders, totalItemsSold, grossRevenue, totalDiscount,
                           activeDiscount, discountHistory, nextEligibleOrder>> ]_vars

\* C13 witness: user-2, whose cart its earlier checkout emptied, checked out
\* again with the code that is active and got ErrCartEmpty; the code is still
\* active.
C13_Witness ==
    /\ ret.op = "Checkout"
    /\ ret.err = ErrCartEmpty
    /\ ret.discountCode # ""
    /\ activeDiscount # NIL
    /\ Deref(activeDiscount).Code = ret.discountCode
    /\ "user-1" \notin DOMAIN carts
    /\ ret.userID = "user-2"
    /\ carts["user-2"].Items = EmptyItems
    /\ Len(orders) > 0

\* ------------------------------------------------------------------- C15
\* C15: Stats returns no error and changes nothing in the store.  Its
\* TotalOrders is the number of orders, its TotalItemsSold, GrossRevenue and
\* TotalDiscountGiven are the three counters, its DiscountCodes are the
\* redeemed codes in the order of their redemption followed by the active
\* code, as the last element, exactly when there is one, and its
\* ActiveDiscount is set exactly when a code is active, to that code.
C15_StatsReport ==
    [][ret'.op = "Stats" =>
          LET stats == Deref(ret'.stats)
              n     == Len(discountHistory)
          IN  /\ ret'.err = ""
              /\ UNCHANGED store
              /\ stats.TotalOrders = Len(orders)
              /\ stats.TotalItemsSold = totalItemsSold
              /\ stats.GrossRevenue = grossRevenue
              /\ stats.TotalDiscountGiven = totalDiscount
              /\ SubSeq(stats.DiscountCodes, 1, n) = discountHistory
              /\ \A i \in 1..n : stats.DiscountCodes[i].IsRedeemed
              /\ IF activeDiscount = NIL
                   THEN /\ Len(stats.DiscountCodes) = n
                        /\ stats.ActiveDiscount = NIL
                   ELSE /\ Len(stats.DiscountCodes) = n + 1
                        /\ stats.DiscountCodes[n + 1] = Deref(activeDiscount)
                        /\ stats.ActiveDiscount = activeDiscount ]_vars

\* C15 witness: Stats reported one redeemed code followed by the active one.
C15_Witness ==
    /\ ret.op = "Stats"
    /\ Len(Deref(ret.stats).DiscountCodes) = 2
    /\ Deref(ret.stats).DiscountCodes[1].IsRedeemed
    /\ ~Deref(ret.stats).DiscountCodes[2].IsRedeemed
    /\ Deref(ret.stats).ActiveDiscount # NIL
    /\ Deref(ret.stats).TotalOrders = 2

\* ------------------------------------------------------------------- C16
\* C16: the store just constructed has no carts, no orders, no active code,
\* an empty discount history and counters at 0.  Constructed with
\* nthOrder > 0 its threshold and its nextEligibleOrder are nthOrder;
\* constructed with nthOrder <= 0 it is in the state NewMemoryStore(5) gives.
\* main passes 3 when NTH_ORDER_DISCOUNT is unset, is not a number or is a
\* number <= 0, and the number otherwise, so that the threshold of the store
\* is positive in every state.
C16_Construction ==
    /\ nthOrderThreshold > 0
    /\ ret.boot # NIL =>
         LET nthOrder == Deref(ret.boot).nthOrder
             fromEnv  == Deref(ret.boot).fromEnv
         IN  /\ carts = <<>> /\ orders = <<>> /\ discountHistory = <<>>
             /\ activeDiscount = NIL
             /\ totalItemsSold = 0 /\ grossRevenue = 0 /\ totalDiscount = 0
             /\ nthOrder > 0 => (nthOrderThreshold = nthOrder /\ nextEligibleOrder = nthOrder)
             /\ nthOrder <= 0 => (nthOrderThreshold = 5 /\ nextEligibleOrder = 5)
             /\ ret.op = "main" =>
                  /\ fromEnv \in {<<>>, <<"a", "b", "c">>, <<"0">>, <<"-", "1">>} => nthOrder = 3
                  /\ fromEnv = <<"1">> => nthOrder = 1
                  /\ fromEnv = <<"2">> => nthOrder = 2

\* C16 witness: NewMemoryStore(-1) has given a store with threshold 5.
C16_Witness ==
    /\ ret.op = "NewMemoryStore"
    /\ Deref(ret.boot).nthOrder = -1
    /\ nthOrderThreshold = 5
    /\ nextEligibleOrder = 5

\* ------------------------------------------------------------------- C17
\* C17: Checkout tests for its failures in one order.  With an empty cart it
\* returns ErrCartEmpty, code or no code.  With items in the cart and a
\* non-empty code string it returns ErrDiscountNotActive when no code is
\* active and ErrDiscountMismatch when the active code's string is not the
\* supplied one character for character, upper and lower case distinguished,
\* and it redeems the code when the strings are equal.  With an empty code
\* string it fails for no reason of the discount and leaves the active code
\* and the discount history as they were.
C17_CheckoutFailureOrder ==
    [][ret'.op = "Checkout" =>
          LET u     == ret'.userID
              c     == ret'.discountCode
              empty == u \notin DOMAIN carts \/ DOMAIN carts[u].Items = {}
          IN  /\ empty => ret'.err = ErrCartEmpty
              /\ (~empty /\ c # "" /\ activeDiscount = NIL)
                    => ret'.err = ErrDiscountNotActive
              /\ (~empty /\ c # "" /\ activeDiscount # NIL)
                    => IF Deref(activeDiscount).Code = c
                         THEN ret'.err = "" /\ Deref(ret'.order).DiscountCode = c
                         ELSE ret'.err = ErrDiscountMismatch
              /\ c = "" => /\ ret'.err \in {"", ErrCartEmpty}
                           /\ UNCHANGED <<activeDiscount, discountHistory>>
              /\ (~empty /\ c = "") => /\ ret'.err = ""
                                       /\ Deref(ret'.order).DiscountValue = 0 ]_vars

\* C17 witness: the active code is DISC-AAAAAA and a checkout of a cart with
\* items that supplied disc-aaaaaa got ErrDiscountMismatch.
C17_Witness ==
    /\ ret.op = "Checkout"
    /\ ret.err = ErrDiscountMismatch
    /\ ret.discountCode = "disc-aaaaaa"
    /\ activeDiscount # NIL
    /\ Deref(activeDiscount).Code = "DISC-AAAAAA"
    /\ carts[ret.userID].Items # EmptyItems

\* ------------------------------------------------------------------- C20
\* C20: ViewCart and AddItem return no error and write nothing but the carts.
\* ViewCart(U) gives U an empty cart when U has none and leaves the carts as
\* they are when U has one; AddItem(U, item) changes the cart of U alone.
\* Neither changes the cart of another user, the orders, the three counters,
\* the active code, the discount history or nextEligibleOrder.
C20_CartOperationsFrame ==
    [][ret'.op \in {"ViewCart", "AddItem"} =>
          LET u == ret'.userID
          IN  /\ ret'.err = ""
              /\ UNCHANGED <<orders, totalItemsSold, grossRevenue, totalDiscount,
                             activeDiscount, discountHistory, nextEligibleOrder,
                             nthOrderThreshold>>
              /\ DOMAIN carts' = DOMAIN carts \cup {u}
              /\ \A v \in DOMAIN carts \ {u} : carts'[v] = carts[v]
              /\ ret'.op = "ViewCart" =>
                    /\ u \in DOMAIN carts => carts' = carts
                    /\ u \notin DOMAIN carts => carts'[u].Items = EmptyItems
                    /\ Deref(ret'.cart) = carts'[u] ]_vars

\* C20 witness: with an order in the ledger, a code active and items in the
\* cart of user-1, ViewCart has made the empty cart of user-2.
C20_Witness ==
    /\ ret.op = "ViewCart"
    /\ ret.userID = "user-2"
    /\ DOMAIN carts = {"user-1", "user-2"}
    /\ carts["user-2"].Items = EmptyItems
    /\ carts["user-1"].Items # EmptyItems
    /\ Len(orders) = 1
    /\ orders[1].UserID = "user-1"
    /\ activeDiscount # NIL

\* ------------------------------------------------------------------- C19
\* C19 as stated: between two calls of GenerateDiscount that return a code
\* the ledger grows by at least nthOrderThreshold orders.
C19_ThresholdOrdersBetweenCodes ==
    \A i \in 2..Len(generatedAt) :
        generatedAt[i] - generatedAt[i - 1] >= nthOrderThreshold

\* C19 amended: codes are unlocked at the multiples of the threshold.  The
\* k-th call of GenerateDiscount that returns a code finds at least
\* k * nthOrderThreshold orders in the ledger and more orders than the call
\* before it found, and while a redeemed code with eligibility E is the last
\* of the history GenerateDiscount returns ErrDiscountNotEligible as long as
\* the ledger has fewer than E + nthOrderThreshold orders.
C19_CodesAtMultiplesOfThreshold ==
    /\ \A k \in 1..Len(generatedAt) : generatedAt[k] >= k * nthOrderThreshold
    /\ \A k \in 2..Len(generatedAt) : generatedAt[k] > generatedAt[k - 1]
    /\ [][ret'.op = "GenerateDiscount" =>
            /\ (ret'.err = "") = (Len(generatedAt') = Len(generatedAt) + 1)
            /\ (/\ discountHistory # <<>>
                /\ Len(orders) < discountHistory[Len(discountHistory)].EligibleOrderNum
                                    + nthOrderThreshold)
                  => ret'.err = ErrDiscountNotEligible ]_vars

\* C19 witness: with threshold 3 the first code came at 3 orders and the
\* second at 6.
C19_Witness ==
    /\ nthOrderThreshold = 3
    /\ generatedAt = <<3, 6>>
    /\ ret.op = "GenerateDiscount"
    /\ ret.err = ""

\* ------------------------------------------------------------------- C12
\* C12: what the store returns is a snapshot.  As long as a handler holds a
\* returned Cart, its items are those it had at the return, and as long as it
\* holds a returned Stats, the code its ActiveDiscount points to is as it was
\* at the return, whatever other requests do to the store in between.
C12_ReturnedValuesAreSnapshots ==
    \A t \in Threads :
        held[t] # NIL =>
            LET h == Deref(held[t])
            IN  /\ h.items # NIL =>
                      ItemsNow(Deref(h.items)) = Deref(h.ret.cart).Items
                /\ h.active # NIL =>
                      CodeNow(Deref(h.active)) = Deref(Deref(h.ret.stats).ActiveDiscount)

\* C12, the Stats half alone: the code a held ActiveDiscount points to has
\* not been redeemed since.
C12_HeldStatsUnchanged ==
    \A t \in Threads :
        (held[t] # NIL /\ Deref(held[t]).active # NIL)
            => ~CodeNow(Deref(Deref(held[t]).active)).IsRedeemed

\* ------------------------------------------------------------------- C14
\* C14: at most one goroutine is inside a public method of the store, the
\* mutex is held by exactly the goroutine that is inside, and it is free
\* whenever none is: a method that has returned, with an order, a cart, a
\* code, the stats or any of its errors, has released it.
C14_MutualExclusion ==
    /\ Cardinality({t \in Threads : pc[t] = "locked"}) <= 1
    /\ \A t \in Threads : (mu = Ref(t)) <=> (pc[t] = "locked")
    /\ (\A t \in Threads : pc[t] # "locked") => mu = NIL
    /\ \A t \in Threads : held[t] # NIL => mu # Ref(t)

\* C14 witness: g1's Checkout has returned an error of the discount code and
\* g2, which was waiting, is now inside the store.
C14_Witness ==
    /\ pc["g1"] = "encode"
    /\ Deref(held["g1"]).ret.op = "Checkout"
    /\ Deref(held["g1"]).ret.err \in {ErrDiscountNotActive, ErrDiscountMismatch}
    /\ pc["g2"] = "locked"
    /\ mu = Ref("g2")

\* ------------------------------------------------------------------- C18
\* The goroutine t is about to run Checkout with the non-empty code string c
\* for a user with items in the cart.
C18_AboutToCheckout(t, c) ==
    /\ call[t] # NIL
    /\ Deref(call[t]).op = "Checkout"
    /\ Deref(call[t]).discountCode = c
    /\ c # ""
    /\ Deref(call[t]).userID \in DOMAIN carts
    /\ carts[Deref(call[t]).userID].Items # EmptyItems

IssuedCodes ==
    IF activeDiscount = NIL THEN discountHistory
    ELSE Append(discountHistory, Deref(activeDiscount))

\* C21: no two of the codes issued so far, the redeemed ones and the active
\* one, have the same code string: GenerateDiscount never returns a string it
\* has returned before.
C21_CodeStringsUnique ==
    \A i, j \in 1..Len(IssuedCodes) :
        i # j => IssuedCodes[i].Code # IssuedCodes[j].Code

\* ------------------------------------------------------------------- C22
\* C22: the orders are only ever appended to.  A Checkout that returns an
\* order appends that one order, and every other call, a failed Checkout
\* included, leaves the orders as they are; so the orders of before are the
\* first orders of after, items and amounts unchanged, whatever AddItem does
\* to the cart of their user afterwards.
C22_LedgerAppendOnly ==
    [][/\ SubSeq(orders', 1, Len(orders)) = orders
       /\ IF CheckoutSucceeded(ret')
            THEN orders' = Append(orders, Deref(ret'.order))
            ELSE orders' = orders ]_vars

\* C22 witness: user-1 has an order with one Bag, has since put two more Bags
\* into the new cart, and the order still has the one.
C22_Witness ==
    /\ ret.op = "AddItem"
    /\ ret.userID = "user-1"
    /\ Len(orders) >= 1
    /\ orders[1].UserID = "user-1"
    /\ orders[1].Items = <<[SKU |-> "SKU2", Name |-> "Bag", Price |-> 50, Quantity |-> 1]>>
    /\ "SKU2" \in DOMAIN carts["user-1"].Items
    /\ carts["user-1"].Items["SKU2"].Quantity = 2

\* ------------------------------------------------------------------- C24
\* C24: the number of codes issued so far, redeemed or active, times the
\* threshold is at most the number of orders, and the k-th code issued
\* carries EligibleOrderNum = k * nthOrderThreshold: at most one code per
\* nthOrderThreshold orders.
C24_OneCodePerThreshold ==
    /\ Len(IssuedCodes) * nthOrderThreshold <= Len(orders)
    /\ \A k \in 1..Len(IssuedCodes) :
          IssuedCodes[k].EligibleOrderNum = k * nthOrderThreshold

\* C24 witness: with threshold 2 and six orders the third code is active.
C24_Witness ==
    /\ nthOrderThreshold = 2
    /\ Len(orders) = 6
    /\ Len(discountHistory) = 2
    /\ activeDiscount # NIL
    /\ Deref(activeDiscount).EligibleOrderNum = 6

\* ------------------------------------------------------------------- C25
\* C25: no handler is encoding the Cart it got from AddItem or ViewCart
\* while another request's AddItem is writing the Items map that Cart refers
\* to.
C25_NoEncodingDuringWrite == \A t \in Threads : ~Racing(t)

\* C25, the outcome: the process never exits on the runtime's fatal error.
C25_NoFatalError == \A t \in Threads : pc[t] # "exit"

\* ------------------------------------------------------------------- C23
\* C23: under fair scheduling every call of AddItem, ViewCart, Checkout,
\* GenerateDiscount or Stats that a handler has made returns to it.
C23_EveryCallReturns ==
    \A t \in Threads : (pc[t] = "lock") ~> (pc[t] = "encode")

\* C23, the part that is the store's own: a call returns unless the process
\* has exited on the fatal error of the race of C25; no call waits for the
\* mutex for ever.
C23_EveryCallReturnsOrProcessExits ==
    \A t \in Threads : (pc[t] = "lock") ~> (pc[t] \in {"encode", "exit"})

====
